---------------------------- MODULE Spec2Model ----------------------------
(***************************************************************************)
(* A state-machine model of the two optimisers of the repository:          *)
(*   LAB-2/pso.py  Particle Swarm Optimisation (Particle, PSO.optimize)    *)
(*   LAB-3/aco.py  Ant Colony Optimisation (ACO.run and its helpers)       *)
(*                                                                         *)
(* A behaviour runs exactly one of the two programs (variable prog); the   *)
(* variables of the other program stay at their idle values.               *)
(*                                                                         *)
(* Real numbers.  Every float of pso.py is kept as an integer count of     *)
(* 1/Scale, and every pheromone of aco.py as an integer count of 1/PScale. *)
(* The inputs drawn (initial coordinates, r1, r2, rho, deposit, the city   *)
(* lists) are dyadic values for which every product, quotient and sum of   *)
(* the code is exact, both in IEEE doubles and in these units, so the      *)
(* model computes the very numbers the code computes.                      *)
(***************************************************************************)
EXTENDS Integers, Sequences, FiniteSets

VARIABLES
    prog,            \* "pso" or "aco": the script that is running
    \* ---- LAB-2/pso.py
    num_particles,   \* PSO.num_particles
    max_iterations,  \* PSO.max_iterations
    position,        \* particle index -> Particle.position (index -> 1/Scale)
    velocity,        \* particle index -> Particle.velocity
    pBest,           \* particle index -> Particle.pBest
    pBest_fitness,   \* particle index -> Particle.pBest_fitness (1/Scale^2)
    gBest,           \* PSO.gBest
    gBest_fitness,   \* PSO.gBest_fitness
    iteration,       \* loop variable of line 27
    pso_pc,          \* "constructed", "eval", "move", "done"
    pidx,            \* index of the particle the running inner loop is at
    didx,            \* index i of line 43
    pso_result,      \* what optimize returned: <<>> before, <<gBest, fitness>>
    evaluated,       \* history: the positions scored at line 29 so far
    clamped,         \* history: line 53 has changed a coordinate
    \* ---- LAB-3/aco.py
    cities,          \* ACO.cities: sequence of <<x, y>>
    n_ants,          \* ACO.n_ants
    n_iterations,    \* ACO.n_iterations
    rhoHalves,       \* ACO.rho, as a count of halves
    deposit,         \* ACO.deposit
    distances,       \* ACO.distances: city -> city -> distance
    pheromones,      \* ACO.pheromones: city -> city -> count of 1/PScale
    aco_pc,          \* "constructed", "construct", "scan", "done", "failed"
    round,           \* loop variable of line 63
    paths,           \* paths of line 64, as far as built
    path,            \* path of construct_solution; <<>> outside a call
    tour_distances,  \* distances of line 65
    sidx,            \* index of the pair the loop of line 68 is at
    best_path,       \* best_path of run; None is <<>>
    best_distance,   \* best_distance of run
    aco_result       \* what run returned: <<>> before

psoVars == <<num_particles, max_iterations, position, velocity, pBest,
             pBest_fitness, gBest, gBest_fitness, iteration, pso_pc, pidx,
             didx, pso_result, evaluated, clamped>>

acoVars == <<cities, n_ants, n_iterations, rhoHalves, deposit, distances,
             pheromones, aco_pc, round, paths, path, tour_distances, sidx,
             best_path, best_distance, aco_result>>

vars == <<prog, psoVars, acoVars>>

----------------------------------------------------------------------------
(* Bounds of the exploration *)

MaxIterations == 2       \* PSO.max_iterations is drawn from 0 .. MaxIterations
MaxRounds == 2           \* ACO.n_iterations is drawn from 0 .. MaxRounds

(* Scripts' parameters *)

dimension == 2
bounds0 == -10
bounds1 == 10

alpha == 1
beta == 2

(* PSO.__init__: w = 0.5, c1 = 1.5, c2 = 1.5, as counts of halves *)
wHalves == 1
c1Halves == 3
c2Halves == 3

(* One pass of line 46 with r1, r2 in halves divides by 4: after           *)
(* MaxIterations passes every value is still a whole count of 1/Scale.     *)
Scale == 4 ^ MaxIterations

(* Inputs *)
ParticleCounts == {1, 2}
InitPositions == {bounds0, 2, bounds1}    \* random.uniform(bounds[0], bounds[1])
InitVelocities == {-1, 1}                 \* random.uniform(-1, 1)
RValues == {0, 1}                         \* random.random() of line 45, in halves

Dims == 0 .. (dimension - 1)

Min2(a, b) == IF a < b THEN a ELSE b
Max2(a, b) == IF a > b THEN a ELSE b

(* float('inf') and the finite distances it is compared with *)
PosInf == [inf |-> TRUE, val |-> 0]
Fin(d) == [inf |-> FALSE, val |-> d]
Lt(a, b) == (~a.inf) /\ (b.inf \/ a.val < b.val)
Le(a, b) == b.inf \/ ((~a.inf) /\ a.val <= b.val)

None == <<>>

(* The idle values of the program that is not running *)
IdlePSO ==
    /\ num_particles = 0
    /\ max_iterations = 0
    /\ position = <<>>
    /\ velocity = <<>>
    /\ pBest = <<>>
    /\ pBest_fitness = <<>>
    /\ gBest = <<>>
    /\ gBest_fitness = 0
    /\ iteration = 0
    /\ pso_pc = "idle"
    /\ pidx = 0
    /\ didx = 0
    /\ pso_result = <<>>
    /\ evaluated = {}
    /\ clamped = FALSE

IdleACO ==
    /\ cities = <<>>
    /\ n_ants = 0
    /\ n_iterations = 0
    /\ rhoHalves = 0
    /\ deposit = 0
    /\ distances = <<>>
    /\ pheromones = <<>>
    /\ aco_pc = "idle"
    /\ round = 0
    /\ paths = <<>>
    /\ path = <<>>
    /\ tour_distances = <<>>
    /\ sidx = 0
    /\ best_path = None
    /\ best_distance = PosInf
    /\ aco_result = <<>>

----------------------------------------------------------------------------
(* LAB-2/pso.py *)

RECURSIVE SumSquaresFrom(_, _)
SumSquaresFrom(x, i) ==
    IF i >= dimension THEN 0 ELSE x[i] * x[i] + SumSquaresFrom(x, i + 1)

(* objective_function(x): sum(x_i ** 2 for x_i in x) *)
objective_function(x) == SumSquaresFrom(x, 0)

(* line 27: for iteration in range(self.max_iterations) *)
PsoLoopRuns(it, maxit) == it < maxit

(* line 32: if fitness < particle.pBest_fitness *)
ImprovesPBest(fitness, pbf) == fitness < pbf

(* lines 33-34 *)
\* variant: the snapshot of line 33 is left out
PBestKeptStale(pos, fitness, pb, pbf) == pb
EvalPBest(pos, fitness, pb, pbf) ==
    IF ImprovesPBest(fitness, pbf) THEN pos ELSE pb
EvalPBestFitness(fitness, pbf) ==
    IF ImprovesPBest(fitness, pbf) THEN fitness ELSE pbf

(* line 37: if fitness < self.gBest_fitness *)
\* variant: the comparison of line 37 turned round
ImprovesGBestMaximising(fitness, gbf) == fitness > gbf
ImprovesGBest(fitness, gbf) == fitness < gbf

(* lines 38-39 *)
\* variant: the snapshot of line 38 is left out
GBestKeptStale(pos, fitness, gb, gbf) == gb
EvalGBest(pos, fitness, gb, gbf) ==
    IF ImprovesGBest(fitness, gbf) THEN pos ELSE gb
EvalGBestFitness(fitness, gbf) ==
    IF ImprovesGBest(fitness, gbf) THEN fitness ELSE gbf

(* lines 46-48; v, x, pb, gb in 1/Scale, r1 and r2 in halves *)
NewVelocity(v, x, pb, gb, r1, r2) ==
    (2 * wHalves * v + c1Halves * r1 * (pb - x) + c2Halves * r2 * (gb - x)) \div 4

(* line 53: max(self.bounds[0], min(position, self.bounds[1])) *)
\* variant: the min of line 53 is left out
ClampLowerOnly(x) == Max2(bounds0 * Scale, x)
Clamp(x) == Max2(bounds0 * Scale, Min2(x, bounds1 * Scale))

(* Particle.__init__ for every particle, then PSO.__init__ lines 19-24 *)
InitPSO ==
    /\ prog = "pso"
    /\ num_particles \in ParticleCounts
    /\ max_iterations \in 0 .. MaxIterations
    /\ position \in [0 .. (num_particles - 1) ->
                        [Dims -> {x * Scale : x \in InitPositions}]]
    /\ velocity \in [0 .. (num_particles - 1) ->
                        [Dims -> {v * Scale : v \in InitVelocities}]]
    /\ pBest = position
    /\ pBest_fitness = [p \in 0 .. (num_particles - 1) |->
                            objective_function(position[p])]
    /\ gBest = position[0]
    /\ gBest_fitness = pBest_fitness[0]
    /\ iteration = 0
    /\ pso_pc = "constructed"
    /\ pidx = 0
    /\ didx = 0
    /\ pso_result = <<>>
    /\ evaluated = {}
    /\ clamped = FALSE
    /\ IdleACO

(* optimize is called: the first test of the loop of line 27 *)
Optimize ==
    /\ prog = "pso"
    /\ pso_pc = "constructed"
    /\ IF PsoLoopRuns(iteration, max_iterations)
       THEN /\ pso_pc' = "eval"
            /\ pso_result' = pso_result
       ELSE /\ pso_pc' = "done"
            /\ pso_result' = <<gBest, gBest_fitness>>
    /\ UNCHANGED <<acoVars, prog, num_particles, max_iterations, position, velocity,
                   pBest, pBest_fitness, gBest, gBest_fitness, iteration,
                   pidx, didx, evaluated, clamped>>

(* lines 28-39 for the particle at pidx *)
Evaluate ==
    /\ prog = "pso"
    /\ pso_pc = "eval"
    /\ LET fitness == objective_function(position[pidx])
       IN /\ pBest' = [pBest EXCEPT ![pidx] =
                EvalPBest(position[pidx], fitness, pBest[pidx], pBest_fitness[pidx])]
          /\ pBest_fitness' = [pBest_fitness EXCEPT ![pidx] =
                EvalPBestFitness(fitness, pBest_fitness[pidx])]
          /\ gBest' = EvalGBest(position[pidx], fitness, gBest, gBest_fitness)
          /\ gBest_fitness' = EvalGBestFitness(fitness, gBest_fitness)
    /\ evaluated' = evaluated \cup {position[pidx]}
    /\ IF pidx + 1 < num_particles
       THEN /\ pidx' = pidx + 1
            /\ pso_pc' = "eval"
       ELSE /\ pidx' = 0
            /\ pso_pc' = "move"
    /\ UNCHANGED <<acoVars, prog, num_particles, max_iterations, position, velocity,
                   iteration, didx, pso_result, clamped>>

(* lines 43-53 for the particle at pidx and the dimension at didx; after   *)
(* the last one, the next test of the loop of line 27 and, when it ends,   *)
(* the return of line 55                                                   *)
Move ==
    /\ prog = "pso"
    /\ pso_pc = "move"
    /\ \E r1 \in RValues, r2 \in RValues :
        LET v == NewVelocity(velocity[pidx][didx], position[pidx][didx],
                             pBest[pidx][didx], gBest[didx], r1, r2)
            moved == position[pidx][didx] + v
            x == Clamp(moved)
        IN /\ velocity' = [velocity EXCEPT ![pidx][didx] = v]
           /\ position' = [position EXCEPT ![pidx][didx] = x]
           /\ clamped' = (clamped \/ x # moved)
    /\ IF didx + 1 < dimension
       THEN /\ didx' = didx + 1
            /\ UNCHANGED <<pidx, iteration, pso_pc, pso_result>>
       ELSE /\ didx' = 0
            /\ IF pidx + 1 < num_particles
               THEN /\ pidx' = pidx + 1
                    /\ UNCHANGED <<iteration, pso_pc, pso_result>>
               ELSE /\ pidx' = 0
                    /\ iteration' = iteration + 1
                    /\ IF PsoLoopRuns(iteration + 1, max_iterations)
                       THEN /\ pso_pc' = "eval"
                            /\ pso_result' = pso_result
                       ELSE /\ pso_pc' = "done"
                            /\ pso_result' = <<gBest, gBest_fitness>>
    /\ UNCHANGED <<acoVars, prog, num_particles, max_iterations, pBest, pBest_fitness,
                   gBest, gBest_fitness, evaluated>>

----------------------------------------------------------------------------
(* LAB-3/aco.py *)

(* Pheromones are whole counts of 1/PScale: one evaporation with rho in    *)
(* halves divides by 2, so MaxRounds updates stay exact.                   *)
PScale == 2 ^ MaxRounds

(* Inputs: city lists whose Euclidean distances are whole numbers *)
Line4 == << <<0, 0>>, <<1, 0>>, <<2, 0>>, <<3, 0>> >>
Tri3 == << <<0, 0>>, <<3, 0>>, <<0, 4>> >>
Twin3 == << <<0, 0>>, <<0, 0>>, <<1, 0>> >>    \* two cities at one place
AcoInputs == { [cities |-> Line4, n_ants |-> 1],
               [cities |-> Tri3, n_ants |-> 2],
               [cities |-> Twin3, n_ants |-> 1] }
RhoHalvesValues == {0, 1, 2}                   \* rho = 0, 0.5, 1
DepositValues == {0, 24}

n_cities == Len(cities)                        \* line 13
CityIds == 0 .. (n_cities - 1)

RECURSIVE Pow(_, _)
Pow(b, e) == IF e = 0 THEN 1 ELSE b * Pow(b, e - 1)

RECURSIVE ISqrtFrom(_, _)
ISqrtFrom(n, k) == IF (k + 1) * (k + 1) > n THEN k ELSE ISqrtFrom(n, k + 1)

(* np.linalg.norm(a - b) of two points *)
Norm(a, b) ==
    ISqrtFrom((a[1] - b[1]) * (a[1] - b[1]) + (a[2] - b[2]) * (a[2] - b[2]), 0)

(* calculate_distances, for a city list cs *)
calculate_distances(cs) ==
    [i \in 0 .. (Len(cs) - 1) |->
        [j \in 0 .. (Len(cs) - 1) |-> Norm(cs[i + 1], cs[j + 1])]]

(* p[k] of a Python list p, k negative included *)
PyAt(p, k) == IF k < 0 THEN p[Len(p) + k + 1] ELSE p[k + 1]

(* next_city not in path, line 38 *)
\* variant: only the current city is excluded
VisitedOnlyCurrent(c, p) == c = PyAt(p, -1)
Visited(c, p) == \E k \in 1 .. Len(p) : p[k] = c

Unvisited(p) == {c \in CityIds : ~Visited(c, p)}

(* lines 39-43: the score of next_city c from current city cur is          *)
(* ScoreNum / (PScale^alpha * ScoreDen); 0 for a visited city              *)
ScoreNum(cur, c, p) ==
    IF Visited(c, p) THEN 0 ELSE Pow(pheromones[cur][c], alpha)
ScoreDen(cur, c, p) ==
    IF Visited(c, p) THEN 1 ELSE Pow(distances[cur][c], beta)

(* 1 / 0.0 is inf in numpy: the score of an unvisited city at distance 0   *)
(* is inf (nan when its pheromone is 0)                                    *)
ScoreNotFinite(cur, c, p) == (~Visited(c, p)) /\ distances[cur][c] = 0

RECURSIVE ProdDenExcept(_, _, _, _)
ProdDenExcept(cur, p, skip, j) ==
    IF j >= n_cities THEN 1
    ELSE (IF j = skip THEN 1 ELSE ScoreDen(cur, j, p))
            * ProdDenExcept(cur, p, skip, j + 1)

(* score of c over the common denominator of all scores *)
ProbNum(cur, c, p) == ScoreNum(cur, c, p) * ProdDenExcept(cur, p, c, 0)

RECURSIVE SumProbNum(_, _, _)
SumProbNum(cur, p, c) ==
    IF c >= n_cities THEN 0 ELSE ProbNum(cur, c, p) + SumProbNum(cur, p, c + 1)

(* line 44: the division yields nan entries when the sum is 0, inf or nan *)
ProbabilitiesHaveNaN(cur, p) ==
    \/ \E c \in CityIds : ScoreNotFinite(cur, c, p)
    \/ SumProbNum(cur, p, 0) = 0

(* line 45: the cities np.random.choice can return; none when p holds a    *)
(* nan, where it raises ValueError                                         *)
\* variant: a uniform choice among the unvisited cities instead of the error
NextCityChoicesUniformFallback(cur, p) ==
    IF ProbabilitiesHaveNaN(cur, p) THEN Unvisited(p)
    ELSE {c \in CityIds : ProbNum(cur, c, p) > 0}
NextCityChoices(cur, p) ==
    IF ProbabilitiesHaveNaN(cur, p) THEN {}
    ELSE {c \in CityIds : ProbNum(cur, c, p) > 0}

(* range(len(path)) of lines 49 and 56 *)
TourEdgeIndexes(p) == 0 .. (Len(p) - 1)
\* variant: range(1, len(path)), without the wrap-around edge
DepositEdgeIndexesNoWrap(p) == 1 .. (Len(p) - 1)
DepositEdgeIndexes(p) == 0 .. (Len(p) - 1)

SetMin(S) == CHOOSE x \in S : \A y \in S : x <= y

RECURSIVE SumEdges(_, _)
SumEdges(p, idxs) ==
    IF idxs = {} THEN 0
    ELSE LET i == SetMin(idxs)
         IN distances[PyAt(p, i - 1)][PyAt(p, i)] + SumEdges(p, idxs \ {i})

(* calculate_distance(path) *)
calculate_distance(p) == SumEdges(p, TourEdgeIndexes(p))

(* line 53 *)
Evaporate(ph) ==
    [a \in CityIds |-> [b \in CityIds |-> (ph[a][b] * (2 - rhoHalves)) \div 2]]

(* line 55: deposit / distance, in 1/PScale *)
pheromone_contribution(d) == (deposit * PScale) \div d

(* lines 56-57 *)
RECURSIVE DepositPath(_, _, _, _)
DepositPath(ph, p, contribution, idxs) ==
    IF idxs = {} THEN ph
    ELSE LET i == SetMin(idxs)
         IN DepositPath(
                [ph EXCEPT ![PyAt(p, i - 1)][PyAt(p, i)] = @ + contribution],
                p, contribution, idxs \ {i})

(* lines 54-57 from the k-th pair of zip(paths, distances) on *)
RECURSIVE DepositAll(_, _, _, _)
DepositAll(ph, ps, ds, k) ==
    IF k > Len(ps) \/ k > Len(ds) THEN ph
    ELSE DepositAll(
            DepositPath(ph, ps[k], pheromone_contribution(ds[k]),
                        DepositEdgeIndexes(ps[k])),
            ps, ds, k + 1)

(* update_pheromones(paths, distances) *)
update_pheromones(ph, ps, ds) == DepositAll(Evaporate(ph), ps, ds, 1)

(* line 63: for _ in range(self.n_iterations) *)
\* variant: one round too many
AcoLoopStopsAtBound(r, n) == r <= n
AcoLoopRuns(r, n) == r < n

(* line 69: if distance < best_distance *)
\* variant: != in place of <
ImprovesBestOrWorse(d, best) == d.inf # best.inf \/ d.val # best.val
ImprovesBest(d, best) == Lt(d, best)

(* ACO.__init__ *)
InitACO ==
    /\ prog = "aco"
    /\ \E in \in AcoInputs :
        /\ cities = in.cities
        /\ n_ants = in.n_ants
    /\ n_iterations \in 0 .. MaxRounds
    /\ rhoHalves \in RhoHalvesValues
    /\ deposit \in DepositValues
    /\ distances = calculate_distances(cities)
    /\ pheromones = [a \in CityIds |-> [b \in CityIds |-> PScale]]
    /\ aco_pc = "constructed"
    /\ round = 0
    /\ paths = <<>>
    /\ path = <<>>
    /\ tour_distances = <<>>
    /\ sidx = 0
    /\ best_path = None
    /\ best_distance = PosInf
    /\ aco_result = <<>>
    /\ IdlePSO

(* run is called: lines 61-62 and the first test of the loop of line 63 *)
Run ==
    /\ prog = "aco"
    /\ aco_pc = "constructed"
    /\ best_path' = None
    /\ best_distance' = PosInf
    /\ IF AcoLoopRuns(round, n_iterations)
       THEN /\ aco_pc' = "construct"
            /\ aco_result' = aco_result
       ELSE /\ aco_pc' = "done"
            /\ aco_result' = <<None, PosInf>>
    /\ UNCHANGED <<psoVars, prog, cities, n_ants, n_iterations, rhoHalves,
                   deposit, distances, pheromones, round, paths, path,
                   tour_distances, sidx>>

(* construct_solution, line 27: random.randint(0, n_cities - 1) *)
StartTour ==
    /\ prog = "aco"
    /\ aco_pc = "construct"
    /\ path = <<>>
    /\ Len(paths) < n_ants
    /\ \E start \in CityIds : path' = <<start>>
    /\ UNCHANGED <<psoVars, prog, cities, n_ants, n_iterations, rhoHalves,
                   deposit, distances, pheromones, aco_pc, round, paths,
                   tour_distances, sidx, best_path, best_distance, aco_result>>

(* construct_solution, lines 28-31: one turn of the while loop; the        *)
(* ValueError of np.random.choice is caught nowhere and ends the run       *)
ChooseNext ==
    /\ prog = "aco"
    /\ aco_pc = "construct"
    /\ path # <<>>
    /\ Len(path) < n_cities
    /\ LET current_city == PyAt(path, -1)
       IN IF NextCityChoices(current_city, path) = {}
          THEN /\ aco_pc' = "failed"
               /\ path' = path
          ELSE /\ aco_pc' = aco_pc
               /\ \E next_city \in NextCityChoices(current_city, path) :
                    path' = Append(path, next_city)
    /\ UNCHANGED <<psoVars, prog, cities, n_ants, n_iterations, rhoHalves,
                   deposit, distances, pheromones, round, paths,
                   tour_distances, sidx, best_path, best_distance, aco_result>>

(* construct_solution, line 32: the path joins the list of line 64 *)
ReturnTour ==
    /\ prog = "aco"
    /\ aco_pc = "construct"
    /\ path # <<>>
    /\ Len(path) >= n_cities
    /\ paths' = Append(paths, path)
    /\ path' = <<>>
    /\ UNCHANGED <<psoVars, prog, cities, n_ants, n_iterations, rhoHalves,
                   deposit, distances, pheromones, aco_pc, round,
                   tour_distances, sidx, best_path, best_distance, aco_result>>

(* lines 65-66: the tours' distances, then update_pheromones *)
UpdatePheromones ==
    /\ prog = "aco"
    /\ aco_pc = "construct"
    /\ path = <<>>
    /\ Len(paths) >= n_ants
    /\ LET ds == [k \in 1 .. Len(paths) |-> calculate_distance(paths[k])]
       IN /\ tour_distances' = ds
          /\ pheromones' = update_pheromones(pheromones, paths, ds)
    /\ aco_pc' = "scan"
    /\ sidx' = 0
    /\ UNCHANGED <<psoVars, prog, cities, n_ants, n_iterations, rhoHalves,
                   deposit, distances, round, paths, path, best_path,
                   best_distance, aco_result>>

(* lines 68-70 for the pair at sidx; after the last one, the next test of  *)
(* the loop of line 63 and, when it ends, the return of line 71            *)
Scan ==
    /\ prog = "aco"
    /\ aco_pc = "scan"
    /\ LET p == paths[sidx + 1]
           distance == Fin(tour_distances[sidx + 1])
       IN IF ImprovesBest(distance, best_distance)
          THEN /\ best_path' = p
               /\ best_distance' = distance
          ELSE /\ best_path' = best_path
               /\ best_distance' = best_distance
    /\ IF sidx + 1 < Len(paths)
       THEN /\ sidx' = sidx + 1
            /\ UNCHANGED <<aco_pc, round, paths, aco_result>>
       ELSE /\ sidx' = 0
            /\ round' = round + 1
            /\ paths' = <<>>
            /\ IF AcoLoopRuns(round + 1, n_iterations)
               THEN /\ aco_pc' = "construct"
                    /\ aco_result' = aco_result
               ELSE /\ aco_pc' = "done"
                    /\ aco_result' = <<best_path', best_distance'>>
    /\ UNCHANGED <<psoVars, prog, cities, n_ants, n_iterations, rhoHalves,
                   deposit, distances, pheromones, path, tour_distances>>

----------------------------------------------------------------------------
Init == InitPSO \/ InitACO

Next ==
    \/ Optimize
    \/ Evaluate
    \/ Move
    \/ Run
    \/ StartTour
    \/ ChooseNext
    \/ ReturnTour
    \/ UpdatePheromones
    \/ Scan

Spec == Init /\ [][Next]_vars

----------------------------------------------------------------------------
(* Exactness of the fixed-point units: every division the model makes      *)
(* leaves no remainder, so no value is rounded.                            *)

ArithmeticExact ==
    /\ (prog = "pso" /\ pso_pc = "move") =>
        \A r1 \in RValues, r2 \in RValues :
            (2 * wHalves * velocity[pidx][didx]
                + c1Halves * r1 * (pBest[pidx][didx] - position[pidx][didx])
                + c2Halves * r2 * (gBest[didx] - position[pidx][didx])) % 4 = 0
    /\ (prog = "aco" /\ aco_pc \in {"constructed", "construct"}) =>
        /\ \A a \in CityIds, b \in CityIds :
                (pheromones[a][b] * (2 - rhoHalves)) % 2 = 0
        /\ \A a \in CityIds, b \in CityIds :
                distances[a][b] * distances[a][b] =
                    (cities[a + 1][1] - cities[b + 1][1]) * (cities[a + 1][1] - cities[b + 1][1])
                  + (cities[a + 1][2] - cities[b + 1][2]) * (cities[a + 1][2] - cities[b + 1][2])

----------------------------------------------------------------------------
(* Claims *)

Particles == 0 .. (num_particles - 1)
InitGrid == {x * Scale : x \in InitPositions}

(* C1: every coordinate of every particle's position lies within           *)
(* [bounds[0], bounds[1]] in every state from construction on, whatever    *)
(* r1 and r2 are drawn.                                                    *)
C1_PositionWithinBounds ==
    prog = "pso" =>
        \A p \in Particles, i \in Dims :
            /\ bounds0 * Scale <= position[p][i]
            /\ position[p][i] <= bounds1 * Scale

(* C1 witness: a run that has ended after line 53 pulled a coordinate back *)
C1_Witness == prog = "pso" /\ pso_pc = "done" /\ clamped

(* C2 as stated: gBest_fitness is the minimum of the particles'            *)
(* pBest_fitness from the end of construction on: before the first         *)
(* evaluation pass, between passes and at the return of optimize.          *)
C2_GBestIsMinOfPBest ==
    (/\ prog = "pso"
     /\ \/ pso_pc = "constructed"
        \/ pso_pc = "eval" /\ pidx = 0
        \/ pso_pc = "done")
    => /\ \E p \in Particles : gBest_fitness = pBest_fitness[p]
       /\ \A p \in Particles : gBest_fitness <= pBest_fitness[p]

(* C3: gBest_fitness never increases in a run of optimize, and no step of  *)
(* a move pass changes it.                                                 *)
C3_GBestFitnessNonIncreasing ==
    [][prog = "pso" =>
        /\ gBest_fitness' <= gBest_fitness
        /\ pso_pc = "move" => gBest_fitness' = gBest_fitness]_vars

(* C3 witness: a finished run whose gBest is a position reached by moving, *)
(* so gBest_fitness fell in an evaluation pass after the first             *)
C3_Witness ==
    /\ prog = "pso"
    /\ pso_pc = "done"
    /\ \E i \in Dims : gBest[i] \notin InitGrid

(* C4: every tour construct_solution returns is a permutation of           *)
(* 0..n_cities-1, and a tour under construction never holds a city twice.  *)
IsPermutation(p) ==
    /\ Len(p) = n_cities
    /\ \A c \in CityIds : Cardinality({k \in 1 .. Len(p) : p[k] = c}) = 1

C4_ToursArePermutations ==
    prog = "aco" =>
        /\ \A k \in 1 .. Len(paths) : IsPermutation(paths[k])
        /\ \A i \in 1 .. Len(path), j \in 1 .. Len(path) :
                i # j => path[i] # path[j]
        /\ \A k \in 1 .. Len(path) : path[k] \in CityIds

(* C4 witness: both ants' tours of a round after the first, built on       *)
(* pheromones that are no longer uniform                                   *)
C4_Witness ==
    /\ prog = "aco"
    /\ aco_pc = "scan"
    /\ round >= 1
    /\ deposit > 0
    /\ Len(paths) = 2
    /\ paths[1] # paths[2]

(* C5: when every unvisited city's score is zero in choose_next_city, the  *)
(* run aborts at that step: nothing is returned, the choice is not         *)
(* retried, no city is appended, and nothing runs afterwards.              *)
AllUnvisitedScoresZero ==
    /\ prog = "aco"
    /\ aco_pc = "construct"
    /\ path # <<>>
    /\ Len(path) < n_cities
    /\ \A c \in Unvisited(path) :
            /\ ~ScoreNotFinite(PyAt(path, -1), c, path)
            /\ ScoreNum(PyAt(path, -1), c, path) = 0

C5_ZeroScoresAbortRun ==
    [][/\ AllUnvisitedScoresZero =>
            /\ aco_pc' = "failed"
            /\ aco_result' = <<>>
            /\ path' = path
            /\ paths' = paths
       /\ aco_pc # "failed"]_vars

(* C5 witness: a run aborted with every remaining score zero (all          *)
(* pheromone evaporated, none deposited)                                   *)
C5_Witness ==
    /\ prog = "aco"
    /\ aco_pc = "failed"
    /\ aco_result = <<>>
    /\ round >= 1
    /\ \A c \in Unvisited(path) :
            /\ distances[PyAt(path, -1)][c] > 0
            /\ pheromones[PyAt(path, -1)][c] = 0

(* C6: one update_pheromones leaves entry (a, b) at (1 - rho) times its    *)
(* old value plus deposit / tourDistance for every time b follows a in a   *)
(* tour taken cyclically; with deposit = 0 every entry is just multiplied  *)
(* by (1 - rho).                                                           *)
CyclicCount(p, a, b) ==
    Cardinality({k \in 1 .. Len(p) : p[k] = a /\ p[(k % Len(p)) + 1] = b})

RECURSIVE CyclicLength(_, _)
CyclicLength(p, k) ==
    IF k > Len(p) THEN 0
    ELSE distances[p[k]][p[(k % Len(p)) + 1]] + CyclicLength(p, k + 1)

RECURSIVE TotalDeposit(_, _, _)
TotalDeposit(a, b, k) ==
    IF k > Len(paths) THEN 0
    ELSE CyclicCount(paths[k], a, b)
            * ((deposit * PScale) \div CyclicLength(paths[k], 1))
         + TotalDeposit(a, b, k + 1)

C6_PheromoneUpdateClosedForm ==
    [][(prog = "aco" /\ aco_pc = "construct" /\ aco_pc' = "scan") =>
        /\ \A k \in 1 .. Len(paths) :
                (deposit * PScale) % CyclicLength(paths[k], 1) = 0
        /\ \A a \in CityIds, b \in CityIds :
                2 * pheromones'[a][b] =
                    (2 - rhoHalves) * pheromones[a][b] + 2 * TotalDeposit(a, b, 1)
        /\ deposit = 0 =>
                \A a \in CityIds, b \in CityIds :
                    2 * pheromones'[a][b] = (2 - rhoHalves) * pheromones[a][b]]_vars

(* C6 witness: the second update of a run with two different tours,        *)
(* rho = 0.5 and a deposit                                                 *)
C6_Witness ==
    /\ prog = "aco"
    /\ aco_pc = "scan"
    /\ round = 1
    /\ rhoHalves = 1
    /\ deposit > 0
    /\ Len(paths) = 2
    /\ paths[1] # paths[2]

(* C7: best_distance starts at +infinity with best_path None and never     *)
(* increases; it and best_path change only in the scan, to a tour of the   *)
(* round whose distance is strictly smaller.                               *)
C7_BestDistanceNonIncreasing ==
    [][prog = "aco" =>
        /\ aco_pc = "constructed" => best_distance' = PosInf /\ best_path' = None
        /\ Le(best_distance', best_distance)
        /\ (best_distance' # best_distance \/ best_path' # best_path) =>
                /\ aco_pc = "scan"
                /\ Lt(best_distance', best_distance)
                /\ best_path' = paths[sidx + 1]
                /\ best_distance' = Fin(tour_distances[sidx + 1])]_vars

(* C7 witness: in a later round the scan is at a tour shorter than the     *)
(* finite best of the rounds before                                        *)
C7_Witness ==
    /\ prog = "aco"
    /\ aco_pc = "scan"
    /\ round >= 1
    /\ ~best_distance.inf
    /\ tour_distances[sidx + 1] < best_distance.val

(* C8: pBest_fitness is objective_function(pBest) for every particle in    *)
(* every state, and no step of a move pass changes pBest or pBest_fitness. *)
PBestFitnessMatches ==
    \A p \in Particles : pBest_fitness[p] = objective_function(pBest[p])

C8_PBestFitnessIsObjectiveOfPBest ==
    /\ prog = "pso" => PBestFitnessMatches
    /\ [][prog = "pso" =>
            /\ PBestFitnessMatches'
            /\ pso_pc = "move" =>
                    pBest' = pBest /\ pBest_fitness' = pBest_fitness]_vars

(* C8 witness: a particle whose pBest was replaced after it had moved and  *)
(* which has moved away from it since                                      *)
C8_Witness ==
    /\ prog = "pso"
    /\ \E p \in Particles :
        /\ \E i \in Dims : pBest[p][i] \notin InitGrid
        /\ pBest[p] # position[p]

(* C9: with an iteration count of zero the run returns the initial best    *)
(* and changes nothing: optimize returns particle 0's seeded position and  *)
(* fitness and leaves the particles alone; run returns (None, +infinity)   *)
(* and leaves the pheromones all ones.                                     *)
C9_ZeroIterationsReturnInitialBest ==
    [][/\ (prog = "pso" /\ max_iterations = 0) =>
            /\ pso_pc = "constructed"
            /\ pso_pc' = "done"
            /\ pso_result' = <<position[0], objective_function(position[0])>>
            /\ position' = position
            /\ velocity' = velocity
            /\ pBest' = pBest
            /\ pBest_fitness' = pBest_fitness
            /\ gBest' = gBest
            /\ gBest_fitness' = gBest_fitness
       /\ (prog = "aco" /\ n_iterations = 0) =>
            /\ aco_pc = "constructed"
            /\ aco_pc' = "done"
            /\ aco_result' = <<None, PosInf>>
            /\ pheromones' = [a \in CityIds |-> [b \in CityIds |-> PScale]]]_vars

(* C9 witness: optimize has returned from zero iterations with particle    *)
(* 0's seed although another particle's pBest_fitness is smaller           *)
C9_Witness ==
    /\ prog = "pso"
    /\ max_iterations = 0
    /\ pso_pc = "done"
    /\ pso_result = <<gBest, gBest_fitness>>
    /\ \E p \in Particles : pBest_fitness[p] < pso_result[2]

(* C10: after max_iterations >= 1 rounds optimize returns the minimum of   *)
(* the objective over the positions scored in the evaluation passes, at a  *)
(* position that was scored; what the last move pass produced is not       *)
(* scored.                                                                 *)
C10_ResultIsMinOverEvaluated ==
    (prog = "pso" /\ pso_pc = "done" /\ max_iterations >= 1) =>
        /\ pso_result = <<gBest, gBest_fitness>>
        /\ gBest \in evaluated
        /\ gBest_fitness = objective_function(gBest)
        /\ \A x \in evaluated : gBest_fitness <= objective_function(x)

(* C10 witness: the last move pass left a particle at a position better    *)
(* than the returned best                                                  *)
C10_Witness ==
    /\ prog = "pso"
    /\ pso_pc = "done"
    /\ max_iterations >= 1
    /\ \E p \in Particles :
        /\ objective_function(position[p]) < gBest_fitness
        /\ position[p] \notin evaluated

=============================================================================
